---------------------------- MODULE Spec2Model ----------------------------
(***************************************************************************)
(* A model of server-env-config: the typed readers of environment          *)
(* variables (lib.rs), the deployment environment (env.rs), the database   *)
(* settings (db.rs), the HTTP server settings (server.rs) and the full     *)
(* configuration with its .env rendering (conf.rs).                        *)
(*                                                                         *)
(* A text is a sequence of one-character strings, so that suffix tests,    *)
(* concatenation, case folding and number parsing are computed and not     *)
(* assumed.  The value of a variable of the process environment is one of  *)
(*   NotPresent            the variable is not set                         *)
(*   NotUnicode            the variable is set to bytes that are no valid  *)
(*                         Unicode (std::env::var answers Err for it)      *)
(*   Text(s)               the variable is set to the text s               *)
(***************************************************************************)
EXTENDS Integers, Sequences, FiniteSets, TLC

VARIABLES
    osenv,          \* the process environment: variable name -> value
    default_port,   \* argument of Config::init / Config::init_for
    environment,    \* argument of Config::init_for: None or Some(e)
    def,            \* the default handed to a reader (env_bool, env_parsable)
    pc,             \* position of the running call
    env,            \* conf.rs: the local `env` of Config::init_for
    db,             \* the DbConfig built so far (the result of DbConfig::init_for)
    server,         \* the HttpServerConfig built so far
    result,         \* what the call returned: Ok(value) or Err(error)
    rendered,       \* the lines of to_string()
    first           \* db.rs: the database_url of an earlier DbConfig::init_for

vars == <<osenv, default_port, environment, def, pc, env, db, server, result,
          rendered, first>>

---------------------------------------------------------------------------
(* Bounds of the model.                                                    *)

\* Longest text enumerated exhaustively over an alphabet.
MaxLen == 3

\* Longest exhaustive prefix put before the endings of a connection string.
MaxPrefix == 2

\* Most optional variables set at once in the environment of Config::init.
MaxSet == 2

---------------------------------------------------------------------------
(* Texts.                                                                  *)

\* All texts over the alphabet A of length at most n.
TextsUpTo(A, n) == UNION {[1..k -> A] : k \in 0..n}

EndsWith(s, suffix) ==
    /\ Len(s) >= Len(suffix)
    /\ SubSeq(s, Len(s) - Len(suffix) + 1, Len(s)) = suffix

Contains(s, c) == \E i \in 1..Len(s) : s[i] = c

\* char::to_lowercase on the letters the model uses; every other character
\* of the model's alphabets is its own lower case.
LowerChar(c) ==
    CASE c = "T" -> "t" [] c = "R" -> "r" [] c = "U" -> "u" [] c = "E" -> "e"
      [] c = "F" -> "f" [] c = "A" -> "a" [] c = "L" -> "l" [] c = "S" -> "s"
      [] c = "P" -> "p" [] c = "O" -> "o" [] c = "D" -> "d" [] c = "C" -> "c"
      [] c = "I" -> "i" [] c = "N" -> "n" [] c = "G" -> "g" [] c = "Y" -> "y"
      [] OTHER -> c

UpperChar(c) ==
    CASE c = "t" -> "T" [] c = "r" -> "R" [] c = "u" -> "U" [] c = "e" -> "E"
      [] c = "f" -> "F" [] c = "a" -> "A" [] c = "l" -> "L" [] c = "s" -> "S"
      [] c = "p" -> "P" [] c = "o" -> "O" [] c = "d" -> "D" [] c = "c" -> "C"
      [] c = "i" -> "I" [] c = "n" -> "N" [] c = "g" -> "G" [] c = "y" -> "Y"
      [] OTHER -> c

\* str::to_lowercase
to_lowercase(s) == [i \in 1..Len(s) |-> LowerChar(s[i])]

\* Every spelling of the lower-case word w in upper and lower case letters.
RECURSIVE CaseSpellings(_)
CaseSpellings(w) ==
    IF w = <<>> THEN {<<>>}
    ELSE {<<c>> \o s : c \in {w[1], UpperChar(w[1])}, s \in CaseSpellings(Tail(w))}

Digits == <<"0", "1", "2", "3", "4", "5", "6", "7", "8", "9">>

IsDigit(c) == \E d \in 1..10 : Digits[d] = c

DigitValue(c) == (CHOOSE d \in 1..10 : Digits[d] = c) - 1

\* The decimal digits of n: what Display (format!("{}")) prints for an
\* unsigned integer.
RECURSIVE ToDecimal(_)
ToDecimal(n) ==
    IF n < 10 THEN <<Digits[n + 1]>>
    ELSE Append(ToDecimal(n \div 10), Digits[(n % 10) + 1])

\* The value of a sequence of decimal digits.
RECURSIVE DecimalValue(_)
DecimalValue(s) ==
    IF s = <<>> THEN 0
    ELSE 10 * DecimalValue(SubSeq(s, 1, Len(s) - 1)) + DigitValue(s[Len(s)])

\* The digits without their leading zeros.
RECURSIVE StripZeros(_)
StripZeros(s) ==
    IF Len(s) > 1 /\ s[1] = "0" THEN StripZeros(Tail(s)) ELSE s

\* a <= b for two digit sequences without leading zeros.
RECURSIVE DigitsLeq(_, _)
DigitsLeq(a, b) ==
    IF Len(a) # Len(b) THEN Len(a) < Len(b)
    ELSE IF a = <<>> THEN TRUE
    ELSE IF a[1] # b[1] THEN DigitValue(a[1]) < DigitValue(b[1])
    ELSE DigitsLeq(Tail(a), Tail(b))

\* The largest values of the unsigned integer types, as decimal digits (the
\* overflow test of the parser compares digits, so that no number beyond the
\* 32-bit integers of the model is ever computed).
U16_MAX == <<"6", "5", "5", "3", "5">>
U32_MAX == <<"4", "2", "9", "4", "9", "6", "7", "2", "9", "5">>
U64_MAX == <<"1", "8", "4", "4", "6", "7", "4", "4", "0", "7",
             "3", "7", "0", "9", "5", "5", "1", "6", "1", "5">>

---------------------------------------------------------------------------
(* Results: Ok(v) and Err(e), the two shapes of anyhow::Result.            *)

NoText == <<>>

Ok(v) == [ok |-> TRUE, val |-> v]
Err(kind, name, text) == [ok |-> FALSE, kind |-> kind, name |-> name, text |-> text]

\* <uN as FromStr>::from_str: an optional leading "+", then one or more
\* ASCII digits whose value fits the type; anything else (empty, a lone
\* sign, a "-", a letter, a blank, an overflow) is an error.
ParseUnsigned(s, max) ==
    LET digits == IF Len(s) > 0 /\ s[1] = "+" THEN Tail(s) ELSE s
    IN  IF digits = <<>> THEN [ok |-> FALSE]
        ELSE IF \E i \in 1..Len(digits) : ~IsDigit(digits[i]) THEN [ok |-> FALSE]
        ELSE IF ~DigitsLeq(StripZeros(digits), max) THEN [ok |-> FALSE]
        ELSE [ok |-> TRUE, val |-> DecimalValue(digits)]

\* <bool as FromStr>::from_str: exactly "true" or "false".
ParseBool(s) ==
    IF s = <<"t", "r", "u", "e">> THEN [ok |-> TRUE, val |-> TRUE]
    ELSE IF s = <<"f", "a", "l", "s", "e">> THEN [ok |-> TRUE, val |-> FALSE]
    ELSE [ok |-> FALSE]

---------------------------------------------------------------------------
(* The process environment.                                                *)

NotPresent == [tag |-> "NotPresent", s |-> NoText]
NotUnicode == [tag |-> "NotUnicode", s |-> NoText]
Text(s) == [tag |-> "Text", s |-> s]

Names == {"APP_ENV", "APP_URI", "HOST", "PORT", "DATABASE_URL",
          "MIN_CONNECTIONS", "MAX_CONNECTIONS", "ACQUIRE_TIMEOUT_MS",
          "IDLE_TIMEOUT_SEC", "TEST_BEFORE_ACQUIRE", "RUST_LOG"}

\* std::env::var(name): Ok(text) for a variable set to valid Unicode, and
\* Err(VarError) for one that is not set and for one set to invalid Unicode.
var(e, name) ==
    IF e[name].tag = "Text" THEN [ok |-> TRUE, val |-> e[name].s]
    ELSE [ok |-> FALSE, val |-> NoText]

\* lib.rs: env_bool(env_name, default_value)
env_bool(e, env_name, default_value) ==
    LET r == var(e, env_name)
    IN  IF ~r.ok THEN Ok(default_value)
        ELSE LET v == IF r.val = <<"0">> THEN <<"f", "a", "l", "s", "e">>
                      ELSE IF r.val = <<"1">> THEN <<"t", "r", "u", "e">>
                      ELSE to_lowercase(r.val)
                 p == ParseBool(v)
             IN  IF p.ok THEN Ok(p.val) ELSE Err("ParseError", env_name, v)

\* lib.rs: env_parsable::<A>(env_name, default_value), A an unsigned integer
\* type with largest value max.
env_parsable(e, env_name, default_value, max) ==
    LET r == var(e, env_name)
    IN  IF ~r.ok THEN Ok(default_value)
        ELSE LET p == ParseUnsigned(r.val, max)
             IN  IF p.ok THEN Ok(p.val) ELSE Err("ParseError", env_name, r.val)

---------------------------------------------------------------------------
(* env.rs: the deployment environment.                                     *)

\* enum Environment
Environments == {"Local", "Test", "Stage", "Production"}

\* #[derive(Display)] with serialize_all = "snake_case": the variant's name
\* in lower case.
Environment_to_string(v) ==
    CASE v = "Local" -> <<"l", "o", "c", "a", "l">>
      [] v = "Test" -> <<"t", "e", "s", "t">>
      [] v = "Stage" -> <<"s", "t", "a", "g", "e">>
      [] v = "Production" -> <<"p", "r", "o", "d", "u", "c", "t", "i", "o", "n">>

\* A from_str that does not count the letters' case (what the attribute
\* ascii_case_insensitive would derive): used to test C4.
Environment_from_str_IgnoreCase(s) ==
    IF \E v \in Environments : Environment_to_string(v) = to_lowercase(s)
    THEN [ok |-> TRUE,
          val |-> CHOOSE v \in Environments : Environment_to_string(v) = to_lowercase(s)]
    ELSE [ok |-> FALSE, val |-> "Local"]

\* #[derive(EnumString)] with serialize_all = "snake_case":
\* Environment::from_str answers the variant whose serialized name is
\* exactly the text (no ascii_case_insensitive attribute is given, so the
\* letters' case counts), and an error for every other text.
Environment_from_str(s) ==
    IF \E v \in Environments : Environment_to_string(v) = s
    THEN [ok |-> TRUE, val |-> CHOOSE v \in Environments : Environment_to_string(v) = s]
    ELSE [ok |-> FALSE, val |-> "Local"]

\* #[default] Local
Environment_default == "Local"

\* Environment::init()
Environment_init(e) ==
    LET app_env == var(e, "APP_ENV")
    IN  IF ~app_env.ok THEN Ok(Environment_default)
        ELSE LET p == Environment_from_str(app_env.val)
             IN  IF p.ok THEN Ok(p.val)
                 ELSE Err("ValidationError", "APP_ENV", app_env.val)

---------------------------------------------------------------------------
(* db.rs: the database settings.                                           *)

\* An as_millis that drops the part below a second: used to test C8.
Duration_as_millis_WholeSeconds(d) == d.secs * 1000

\* std::time::Duration, from_millis, from_secs, as_millis, as_secs
Duration_from_millis(ms) == [secs |-> ms \div 1000, nanos |-> (ms % 1000) * 1000000]

Duration_from_secs(s) == [secs |-> s, nanos |-> 0]

Duration_as_millis(d) == d.secs * 1000 + d.nanos \div 1000000

Duration_as_secs(d) == d.secs

TestMarker == <<"_", "t", "e", "s", "t">>

\* A rewrite that does not look for "?": used to test C1.
DatabaseUrlFor_IgnoresQuery(env_, url) ==
    IF env_ = "Test" /\ ~EndsWith(url, TestMarker) THEN url \o TestMarker ELSE url

\* A rewrite that does not look for the marker at the end: used to test C2.
DatabaseUrlFor_IgnoresMarker(env_, url) ==
    IF env_ = "Test" /\ ~Contains(url, "?") THEN url \o TestMarker ELSE url

\* db.rs 72-76: the connection string kept for the environment env.
DatabaseUrlFor(env_, url) ==
    IF env_ = "Test" /\ ~EndsWith(url, TestMarker) /\ ~Contains(url, "?")
    THEN url \o TestMarker
    ELSE url

\* An init_for that reads MAX_CONNECTIONS before MIN_CONNECTIONS: used to
\* test C10.
DbConfig_init_for_MaxFirst(e, env_) ==
    LET url == var(e, "DATABASE_URL")
        min_connections == env_parsable(e, "MIN_CONNECTIONS", 1, U32_MAX)
        max_connections == env_parsable(e, "MAX_CONNECTIONS", 10, U32_MAX)
        acquire == env_parsable(e, "ACQUIRE_TIMEOUT_MS", 750, U64_MAX)
        idle == env_parsable(e, "IDLE_TIMEOUT_SEC", 300, U64_MAX)
        test_before_acquire == env_bool(e, "TEST_BEFORE_ACQUIRE", FALSE)
    IN  IF ~url.ok THEN Err("MissingRequiredValue", "DATABASE_URL", NoText)
        ELSE IF ~max_connections.ok THEN max_connections
        ELSE IF ~min_connections.ok THEN min_connections
        ELSE IF ~acquire.ok THEN acquire
        ELSE IF ~idle.ok THEN idle
        ELSE IF ~test_before_acquire.ok THEN test_before_acquire
        ELSE Ok([database_url |-> DatabaseUrlFor(env_, url.val),
                 min_connections |-> min_connections.val,
                 max_connections |-> max_connections.val,
                 acquire_timeout |-> Duration_from_millis(acquire.val),
                 idle_timeout |-> Duration_from_secs(idle.val),
                 test_before_acquire |-> test_before_acquire.val])

\* An init_for that takes a missing DATABASE_URL for the empty text
\* (unwrap_or_default instead of context()?): used to test C7.
DbConfig_init_for_UrlOptional(e, env_) ==
    LET url == var(e, "DATABASE_URL")
        min_connections == env_parsable(e, "MIN_CONNECTIONS", 1, U32_MAX)
        max_connections == env_parsable(e, "MAX_CONNECTIONS", 10, U32_MAX)
        acquire == env_parsable(e, "ACQUIRE_TIMEOUT_MS", 750, U64_MAX)
        idle == env_parsable(e, "IDLE_TIMEOUT_SEC", 300, U64_MAX)
        test_before_acquire == env_bool(e, "TEST_BEFORE_ACQUIRE", FALSE)
    IN  IF ~min_connections.ok THEN min_connections
        ELSE IF ~max_connections.ok THEN max_connections
        ELSE IF ~acquire.ok THEN acquire
        ELSE IF ~idle.ok THEN idle
        ELSE IF ~test_before_acquire.ok THEN test_before_acquire
        ELSE Ok([database_url |-> DatabaseUrlFor(env_, url.val),
                 min_connections |-> min_connections.val,
                 max_connections |-> max_connections.val,
                 acquire_timeout |-> Duration_from_millis(acquire.val),
                 idle_timeout |-> Duration_from_secs(idle.val),
                 test_before_acquire |-> test_before_acquire.val])

\* DbConfig::init_for(env): each `?` returns the first error met.
DbConfig_init_for(e, env_) ==
    LET url == var(e, "DATABASE_URL")
        min_connections == env_parsable(e, "MIN_CONNECTIONS", 1, U32_MAX)
        max_connections == env_parsable(e, "MAX_CONNECTIONS", 10, U32_MAX)
        acquire == env_parsable(e, "ACQUIRE_TIMEOUT_MS", 750, U64_MAX)
        idle == env_parsable(e, "IDLE_TIMEOUT_SEC", 300, U64_MAX)
        test_before_acquire == env_bool(e, "TEST_BEFORE_ACQUIRE", FALSE)
    IN  IF ~url.ok THEN Err("MissingRequiredValue", "DATABASE_URL", NoText)
        ELSE IF ~min_connections.ok THEN min_connections
        ELSE IF ~max_connections.ok THEN max_connections
        ELSE IF ~acquire.ok THEN acquire
        ELSE IF ~idle.ok THEN idle
        ELSE IF ~test_before_acquire.ok THEN test_before_acquire
        ELSE Ok([database_url |-> DatabaseUrlFor(env_, url.val),
                 min_connections |-> min_connections.val,
                 max_connections |-> max_connections.val,
                 acquire_timeout |-> Duration_from_millis(acquire.val),
                 idle_timeout |-> Duration_from_secs(idle.val),
                 test_before_acquire |-> test_before_acquire.val])

\* <bool as Display>
Bool_to_string(b) == IF b THEN <<"t", "r", "u", "e">> ELSE <<"f", "a", "l", "s", "e">>

\* One line NAME=value or NAME="value" of a rendering.
Line(name, quoted, value) == [name |-> name, quoted |-> quoted, value |-> value]

\* impl ToString for DbConfig
DbConfig_to_string(d) ==
    << Line("DATABASE_URL", TRUE, d.database_url),
       Line("MIN_CONNECTIONS", FALSE, ToDecimal(d.min_connections)),
       Line("MAX_CONNECTIONS", FALSE, ToDecimal(d.max_connections)),
       Line("ACQUIRE_TIMEOUT_MS", FALSE, ToDecimal(Duration_as_millis(d.acquire_timeout))),
       Line("IDLE_TIMEOUT_SEC", FALSE, ToDecimal(Duration_as_secs(d.idle_timeout))),
       Line("TEST_BEFORE_ACQUIRE", FALSE, Bool_to_string(d.test_before_acquire)) >>

---------------------------------------------------------------------------
(* server.rs: the HTTP server settings.                                    *)

Http == <<"h", "t", "t", "p", ":", "/", "/">>
Localhost == <<"l", "o", "c", "a", "l", "h", "o", "s", "t">>

\* A url that always shows the port: used to test C3.
UrlOf_AlwaysPort(addr, port, uri) ==
    <<"h", "t", "t", "p", ":", "/", "/">>
    \o (IF addr = <<"0">> THEN <<"l", "o", "c", "a", "l", "h", "o", "s", "t">> ELSE addr)
    \o <<":">> \o ToDecimal(port)
    \o (IF uri = <<>> THEN <<>> ELSE <<"/">> \o uri)
    \o <<"/">>

\* server.rs 32-35: format!("http://{}{}{}/", ...)
UrlOf(addr, port, uri) ==
    Http
    \o (IF addr = <<"0">> THEN Localhost ELSE addr)
    \o (IF port = 80 THEN <<>> ELSE <<":">> \o ToDecimal(port))
    \o (IF uri = <<>> THEN <<>> ELSE <<"/">> \o uri)
    \o <<"/">>

\* HttpServerConfig::init_for(default_host, default_port)
HttpServerConfig_init_for(e, default_host, default_port_) ==
    LET host == var(e, "HOST")
        addr == IF host.ok THEN host.val ELSE default_host
        port == env_parsable(e, "PORT", default_port_, U16_MAX)
        app_uri == var(e, "APP_URI")
        uri == IF app_uri.ok THEN app_uri.val ELSE <<>>
    IN  IF ~port.ok THEN port
        ELSE Ok([addr |-> addr, port |-> port.val, uri |-> uri,
                 url |-> UrlOf(addr, port.val, uri)])

---------------------------------------------------------------------------
(* conf.rs: the full configuration.                                        *)

None == [some |-> FALSE, e |-> "Local"]
Some(v) == [some |-> TRUE, e |-> v]

DefaultHost == <<"1", "2", "7", ".", "0", ".", "0", ".", "1">>

\* A resolution that reads APP_ENV whatever is passed: used to test C9.
ResolveEnvironment_AlwaysReads(e, environment_) == Environment_init(e)

\* conf.rs 74-77: the environment passed, or else the one APP_ENV names.
ResolveEnvironment(e, environment_) ==
    IF environment_.some THEN Ok(environment_.e) ELSE Environment_init(e)

\* Config::init_for(default_port, environment)
Config_init_for(e, default_port_, environment_) ==
    LET env_ == ResolveEnvironment(e, environment_)
    IN  IF ~env_.ok THEN env_
        ELSE LET db_ == DbConfig_init_for(e, env_.val)
             IN  IF ~db_.ok THEN db_
                 ELSE LET server_ == HttpServerConfig_init_for(e, DefaultHost, default_port_)
                      IN  IF ~server_.ok THEN server_
                          ELSE Ok([env |-> env_.val, server |-> server_.val, db |-> db_.val])

\* Config::init(default_port)
Config_init(e, default_port_) == Config_init_for(e, default_port_, None)

\* impl ToString for Config: the line of the comment that shows the URL,
\* then the assignments in order (the three fixed comment lines are left
\* out).  RUST_LOG is copied from the process environment.
Config_to_string(c, e) ==
    LET rust_log == var(e, "RUST_LOG")
    IN  << Line("# APP_URL -->", FALSE, c.server.url),
           Line("APP_ENV", FALSE, Environment_to_string(c.env)),
           Line("APP_URI", TRUE, c.server.uri),
           Line("HOST", FALSE, c.server.addr),
           Line("PORT", FALSE, ToDecimal(c.server.port)),
           Line("DATABASE_URL", TRUE, c.db.database_url),
           Line("MIN_CONNECTIONS", FALSE, ToDecimal(c.db.min_connections)),
           Line("MAX_CONNECTIONS", FALSE, ToDecimal(c.db.max_connections)),
           Line("ACQUIRE_TIMEOUT_MS", FALSE, ToDecimal(Duration_as_millis(c.db.acquire_timeout))),
           Line("IDLE_TIMEOUT_SEC", FALSE, ToDecimal(Duration_as_secs(c.db.idle_timeout))),
           Line("TEST_BEFORE_ACQUIRE", FALSE, Bool_to_string(c.db.test_before_acquire)),
           Line("RUST_LOG", TRUE, IF rust_log.ok THEN rust_log.val ELSE <<>>) >>

---------------------------------------------------------------------------
(* The state machine: a call is started in Init (its arguments and the     *)
(* process environment are chosen there) and the actions run it.           *)

Pending == [pending |-> TRUE]
NoUrl == [some |-> FALSE, s |-> NoText]

\* The environment in which no variable is set.
Unset == [n \in Names |-> NotPresent]

Idle ==
    /\ env = "unset" /\ db = Pending /\ server = Pending /\ result = Pending
    /\ rendered = <<>> /\ first = NoUrl

(* ---- Config::init_for, step by step ---- *)

\* What APP_ENV and DATABASE_URL may hold when Config::init_for runs.
AppEnvValues ==
    {NotPresent, NotUnicode, Text(<<"t", "e", "s", "t">>),
     Text(<<"p", "r", "o", "d", "u", "c", "t", "i", "o", "n">>),
     Text(<<"T", "e", "s", "t">>)}

DatabaseUrlValues ==
    {NotPresent, NotUnicode, Text(<<"d", "b">>), Text(<<"d", "b">> \o TestMarker),
     Text(<<"d", "?", "a">>)}

\* The other variables: each is not set, or set to a value the code accepts
\* (1), or set to a second value (2), which the readers that parse reject.
Optional == Names \ {"APP_ENV", "DATABASE_URL"}

SetValue(n, i) ==
    CASE n = "HOST" -> IF i = 1 THEN Text(<<"h">>) ELSE Text(<<"0">>)
      [] n = "APP_URI" -> IF i = 1 THEN Text(<<"a", "p", "i">>) ELSE Text(<<>>)
      [] n = "RUST_LOG" -> IF i = 1 THEN Text(<<"i", "n", "f", "o">>) ELSE NotUnicode
      [] n = "PORT" -> IF i = 1 THEN Text(<<"8", "0">>) ELSE Text(<<"x">>)
      [] n = "MIN_CONNECTIONS" -> IF i = 1 THEN Text(<<"5">>) ELSE Text(<<"x">>)
      [] n = "MAX_CONNECTIONS" -> IF i = 1 THEN Text(<<"5", "0">>) ELSE Text(<<"-", "1">>)
      [] n = "ACQUIRE_TIMEOUT_MS" -> IF i = 1 THEN Text(<<"1", "5", "0", "0">>) ELSE Text(<<>>)
      [] n = "IDLE_TIMEOUT_SEC" -> IF i = 1 THEN Text(<<"6", "0">>) ELSE Text(<<"6", "s">>)
      [] n = "TEST_BEFORE_ACQUIRE" ->
            IF i = 1 THEN Text(<<"T", "R", "U", "E">>) ELSE Text(<<"y", "e", "s">>)

\* The environments with at most MaxSet of the optional variables set.
ConfigEnvs ==
    {[n \in Names |->
        IF n = "APP_ENV" THEN a
        ELSE IF n = "DATABASE_URL" THEN d
        ELSE IF n \in DOMAIN f THEN SetValue(n, f[n])
        ELSE NotPresent] :
      a \in AppEnvValues, d \in DatabaseUrlValues,
      f \in UNION {[S -> 1..2] : S \in {S \in SUBSET Optional : Cardinality(S) <= MaxSet}}}

InitConfig ==
    /\ osenv \in ConfigEnvs
    /\ default_port \in {80, 8080}
    /\ environment \in {None, Some("Test"), Some("Stage")}
    /\ def = 0
    /\ pc = "init_for"
    /\ Idle

\* conf.rs 74-77
ConfigEnvironment ==
    /\ pc = "init_for"
    /\ LET r == ResolveEnvironment(osenv, environment)
       IN  IF r.ok
           THEN env' = r.val /\ pc' = "db" /\ UNCHANGED result
           ELSE result' = r /\ pc' = "returned" /\ UNCHANGED env
    /\ UNCHANGED <<osenv, default_port, environment, def, db, server, rendered, first>>

\* conf.rs 83
ConfigDb ==
    /\ pc = "db"
    /\ db' = DbConfig_init_for(osenv, env)
    /\ IF db'.ok
       THEN pc' = "server" /\ UNCHANGED result
       ELSE result' = db' /\ pc' = "returned"
    /\ UNCHANGED <<osenv, default_port, environment, def, env, server, rendered, first>>

\* conf.rs 84-85
ConfigServer ==
    /\ pc = "server"
    /\ server' = HttpServerConfig_init_for(osenv, DefaultHost, default_port)
    /\ IF server'.ok
       THEN result' = Ok([env |-> env, server |-> server'.val, db |-> db.val])
       ELSE result' = server'
    /\ pc' = "returned"
    /\ UNCHANGED <<osenv, default_port, environment, def, env, db, rendered, first>>

\* conf.rs 94-125: to_string() of the Config returned
ConfigToString ==
    /\ pc = "returned"
    /\ result.ok
    /\ rendered' = Config_to_string(result.val, osenv)
    /\ pc' = "rendered"
    /\ UNCHANGED <<osenv, default_port, environment, def, env, db, server, result, first>>

Next == ConfigEnvironment \/ ConfigDb \/ ConfigServer \/ ConfigToString

Spec == InitConfig /\ [][Next]_vars

(* ---- the readers, each called once ---- *)

True == <<"t", "r", "u", "e">>
False == <<"f", "a", "l", "s", "e">>

BoolTexts ==
    TextsUpTo({"0", "1", "2", "t"}, MaxLen)
        \cup CaseSpellings(True) \cup CaseSpellings(False)
        \cup {<<"y", "e", "s">>, <<"t", "r", "u">>, <<"t", "r", "u", "e", "e">>,
              <<" ", "t", "r", "u", "e">>, <<"o", "n">>,
              <<"n", "o", "t", " ", "a", " ", "b", "o", "o", "l", "e", "a", "n">>}

NumberTexts ==
    TextsUpTo({"0", "1", "9", "+", "-", "x"}, MaxLen)
        \cup {<<"1", "2", "3", "4">>, <<"6", "5", "5", "3", "5">>,
              <<"6", "5", "5", "3", "6">>, <<"9", "9", "9", "9", "9">>,
              <<"+", "6", "5", "5", "3", "5">>, <<"0", "0", "0", "8", "0">>,
              <<"0", "0", "6", "5", "5", "3", "6">>, <<" ", "8", "0">>, <<"8", "0", " ">>,
              <<"n", "o", "t", " ", "a", " ", "n", "u", "m", "b", "e", "r">>}

EnvironmentTexts ==
    UNION {CaseSpellings(Environment_to_string(v)) : v \in Environments}
        \cup TextsUpTo({"t", "e", "s"}, MaxLen)
        \cup {<<"p", "r", "o", "d">>, <<"t", "e", "s", "t", "s">>, <<" ", "t", "e", "s", "t">>,
              <<"d", "e", "v">>,
              <<"N", "o", "t", " ", "a", " ", "e", "n", "v", "i", "r", "o", "n", "m", "e", "n", "t">>}

Values(texts) == {NotPresent, NotUnicode} \cup {Text(s) : s \in texts}

\* The variable a call of a reader reads, by the position that names the call.
ReadBy(at) ==
    CASE at \in {"env_bool", "env_bool_returned"} -> "TEST_BEFORE_ACQUIRE"
      [] at \in {"env_parsable_u16", "env_parsable_u16_returned"} -> "PORT"
      [] at \in {"env_parsable_u64", "env_parsable_u64_returned"} -> "ACQUIRE_TIMEOUT_MS"
      [] at \in {"Environment_init", "Environment_init_returned"} -> "APP_ENV"

InitReaders ==
    /\ pc \in {"env_bool", "env_parsable_u16", "env_parsable_u64", "Environment_init"}
    /\ \E v \in (CASE pc = "env_bool" -> Values(BoolTexts)
                   [] pc = "Environment_init" -> Values(EnvironmentTexts)
                   [] OTHER -> Values(NumberTexts)) :
          osenv = [Unset EXCEPT ![ReadBy(pc)] = v]
    /\ def \in (CASE pc = "env_bool" -> BOOLEAN
                  [] pc = "Environment_init" -> {0}
                  [] OTHER -> {1, 999})
    /\ default_port = 0 /\ environment = None
    /\ Idle

\* lib.rs 37-49 called with a default
CallEnvBool ==
    /\ pc = "env_bool"
    /\ result' = env_bool(osenv, ReadBy(pc), def)
    /\ pc' = "env_bool_returned"
    /\ UNCHANGED <<osenv, default_port, environment, def, env, db, server, rendered, first>>

\* lib.rs 69-79 called for u16 and for u64, with a default
CallEnvParsable ==
    /\ pc \in {"env_parsable_u16", "env_parsable_u64"}
    /\ result' = env_parsable(osenv, ReadBy(pc), def,
                              IF pc = "env_parsable_u16" THEN U16_MAX ELSE U64_MAX)
    /\ pc' = IF pc = "env_parsable_u16" THEN "env_parsable_u16_returned"
             ELSE "env_parsable_u64_returned"
    /\ UNCHANGED <<osenv, default_port, environment, def, env, db, server, rendered, first>>

\* env.rs 35-42
CallEnvironmentInit ==
    /\ pc = "Environment_init"
    /\ result' = Environment_init(osenv)
    /\ pc' = "Environment_init_returned"
    /\ UNCHANGED <<osenv, default_port, environment, def, env, db, server, rendered, first>>

NextReaders == CallEnvBool \/ CallEnvParsable \/ CallEnvironmentInit

SpecReaders == InitReaders /\ [][NextReaders]_vars

(* ---- DbConfig::init_for, called, and called again on its own result ---- *)

\* Connection strings: every short text over a few characters, followed by
\* every ending that is, nearly is, or holds the marker or the "?".
UrlEndings ==
    {<<>>, TestMarker, <<"_", "t", "e", "s">>, <<"t", "e", "s", "t">>,
     <<"_", "T", "E", "S", "T">>, TestMarker \o <<"?">>, TestMarker \o <<"s">>,
     TestMarker \o TestMarker, <<"?", "x", "=", "1">>}

DatabaseUrlTexts ==
    {p \o s : p \in TextsUpTo({"d", "?", "_", "t"}, MaxPrefix), s \in UrlEndings}

InitDb ==
    /\ pc = "db_init_for"
    /\ env \in Environments
    /\ \E u \in Values(DatabaseUrlTexts), m \in {NotPresent, Text(<<"5">>), Text(<<"x">>)} :
          osenv = [Unset EXCEPT !["DATABASE_URL"] = u, !["MIN_CONNECTIONS"] = m]
    /\ default_port = 0 /\ environment = None /\ def = 0
    /\ db = Pending /\ server = Pending /\ result = Pending
    /\ rendered = <<>> /\ first = NoUrl

\* db.rs 70-90
DbInitFor ==
    /\ pc = "db_init_for"
    /\ db' = DbConfig_init_for(osenv, env)
    /\ result' = db'
    /\ pc' = "db_returned"
    /\ UNCHANGED <<osenv, default_port, environment, def, env, server, rendered, first>>

\* env::set_var("DATABASE_URL", db.database_url), to resolve once more
DbSetResolvedUrl ==
    /\ pc = "db_returned"
    /\ db.ok
    /\ ~first.some
    /\ first' = [some |-> TRUE, s |-> db.val.database_url]
    /\ osenv' = [osenv EXCEPT !["DATABASE_URL"] = Text(db.val.database_url)]
    /\ pc' = "db_init_for"
    /\ UNCHANGED <<default_port, environment, def, env, db, server, result, rendered>>

\* db.rs 98-113
DbToString ==
    /\ pc = "db_returned"
    /\ db.ok
    /\ rendered' = DbConfig_to_string(db.val)
    /\ pc' = "db_rendered"
    /\ UNCHANGED <<osenv, default_port, environment, def, env, db, server, result, first>>

NextDb == DbInitFor \/ DbSetResolvedUrl \/ DbToString

SpecDb == InitDb /\ [][NextDb]_vars

(* ---- HttpServerConfig::init_for, called once ---- *)

HostTexts == TextsUpTo({"0", "h"}, MaxLen - 1) \cup {Localhost, DefaultHost}

PortTexts ==
    {<<"8", "0">>, <<"0", "8", "0">>, <<"+", "8", "0">>, <<"8", "0", "8", "0">>,
     <<"0">>, <<"8">>, <<"6", "5", "5", "3", "5">>, <<"6", "5", "5", "3", "6">>,
     <<"x">>, <<>>}

UriTexts == TextsUpTo({"a", "/"}, MaxLen - 1) \cup {<<"a", "p", "i", "/", "v", "1">>}

InitHttp ==
    /\ pc = "http_init_for"
    /\ \E h \in Values(HostTexts), p \in Values(PortTexts), u \in Values(UriTexts) :
          osenv = [Unset EXCEPT !["HOST"] = h, !["PORT"] = p, !["APP_URI"] = u]
    /\ def \in {DefaultHost, <<"0">>}
    /\ default_port \in {80, 8080, 0}
    /\ environment = None
    /\ Idle

\* server.rs 28-37
HttpInitFor ==
    /\ pc = "http_init_for"
    /\ server' = HttpServerConfig_init_for(osenv, def, default_port)
    /\ result' = server'
    /\ pc' = "http_returned"
    /\ UNCHANGED <<osenv, default_port, environment, def, env, db, rendered, first>>

SpecHttp == InitHttp /\ [][HttpInitFor]_vars

---------------------------------------------------------------------------
(* Claims about Config::init and Config::init_for, checked under Spec.     *)

Returned == pc \in {"returned", "rendered"}

MissingDatabaseUrl == Err("MissingRequiredValue", "DATABASE_URL", NoText)

\* The variables whose reading can fail, in the order the claim gives.
Order == <<"APP_ENV", "DATABASE_URL", "MIN_CONNECTIONS", "MAX_CONNECTIONS",
           "ACQUIRE_TIMEOUT_MS", "IDLE_TIMEOUT_SEC", "TEST_BEFORE_ACQUIRE", "PORT">>

\* What reading the variable n alone answers in the environment e.
ReadAlone(e, n, p) ==
    CASE n = "APP_ENV" -> Environment_init(e)
      [] n = "DATABASE_URL" ->
            IF var(e, n).ok THEN Ok(var(e, n).val) ELSE MissingDatabaseUrl
      [] n = "MIN_CONNECTIONS" -> env_parsable(e, n, 1, U32_MAX)
      [] n = "MAX_CONNECTIONS" -> env_parsable(e, n, 10, U32_MAX)
      [] n = "ACQUIRE_TIMEOUT_MS" -> env_parsable(e, n, 750, U64_MAX)
      [] n = "IDLE_TIMEOUT_SEC" -> env_parsable(e, n, 300, U64_MAX)
      [] n = "TEST_BEFORE_ACQUIRE" -> env_bool(e, n, FALSE)
      [] n = "PORT" -> env_parsable(e, n, p, U16_MAX)

FailingAt(e, p) == {i \in 1..Len(Order) : ~ReadAlone(e, Order[i], p).ok}

Earliest(S) == CHOOSE i \in S : \A j \in S : i <= j

\* C10: Config::init is all or nothing.  Once it has returned, it has
\* returned a Config exactly when no variable of the order APP_ENV,
\* DATABASE_URL, MIN_CONNECTIONS, MAX_CONNECTIONS, ACQUIRE_TIMEOUT_MS,
\* IDLE_TIMEOUT_SEC, TEST_BEFORE_ACQUIRE, PORT fails to be read, the Config
\* then holds the three parts, each resolved; otherwise it has returned,
\* unchanged, the error of the earliest failing variable of that order, and
\* nothing after the failing step has run.
C10_FailsOnFirstInOrder ==
    (Returned /\ ~environment.some) =>
        LET failing == FailingAt(osenv, default_port)
        IN  IF failing = {}
            THEN /\ result.ok
                 /\ env \in Environments /\ db.ok /\ server.ok
                 /\ result.val = [env |-> env, server |-> server.val, db |-> db.val]
            ELSE /\ ~result.ok
                 /\ result = ReadAlone(osenv, Order[Earliest(failing)], default_port)
                 /\ Earliest(failing) = 1 => (env = "unset" /\ db = Pending)
                 /\ Earliest(failing) < 8 => server = Pending

\* C10 witness: Config::init has returned the error of MIN_CONNECTIONS while
\* a later variable of the order, MAX_CONNECTIONS, fails as well.
C10_Witness ==
    /\ Returned /\ ~environment.some
    /\ FailingAt(osenv, default_port) = {3, 4}
    /\ ~result.ok /\ result.name = "MIN_CONNECTIONS"

\* C9: Config::init_for(p, Some(e)) does not read APP_ENV.  What it returned
\* is what it returns in every environment that differs in APP_ENV alone; a
\* Config it returned has env = e and the connection string that e decides.
\* Config::init_for(p, None) takes env from APP_ENV: it returns the error of
\* Environment::init() if that fails, and otherwise any Config it returns
\* has the env that Environment::init() answers.
C9_ExplicitEnvironmentBypassesAppEnv ==
    Returned =>
        IF environment.some
        THEN /\ \A a \in AppEnvValues :
                    Config_init_for([osenv EXCEPT !["APP_ENV"] = a],
                                    default_port, environment) = result
             /\ result.ok =>
                    /\ result.val.env = environment.e
                    /\ result.val.db.database_url =
                          DatabaseUrlFor(environment.e, osenv["DATABASE_URL"].s)
        ELSE /\ ~Environment_init(osenv).ok => result = Environment_init(osenv)
             /\ result.ok => result.val.env = Environment_init(osenv).val

\* C9 witness: Config::init_for(p, Some(Test)) returned a Config, with the
\* connection string marked for tests, while APP_ENV names no environment.
C9_Witness ==
    /\ Returned /\ environment = Some("Test")
    /\ ~Environment_init(osenv).ok
    /\ result.ok /\ result.val.env = "Test"
    /\ result.val.db.database_url = <<"d", "b">> \o TestMarker
    /\ osenv["DATABASE_URL"] = Text(<<"d", "b">>)

\* The Config that Config::init(p) returns when DATABASE_URL holds the text
\* u and nothing else is set.
Defaults(u, p) ==
    [env |-> "Local",
     server |-> [addr |-> DefaultHost, port |-> p, uri |-> <<>>,
                 url |-> UrlOf(DefaultHost, p, <<>>)],
     db |-> [database_url |-> u, min_connections |-> 1, max_connections |-> 10,
             acquire_timeout |-> [secs |-> 0, nanos |-> 750000000],
             idle_timeout |-> [secs |-> 300, nanos |-> 0],
             test_before_acquire |-> FALSE]]

OnlyDatabaseUrlSet == \A n \in Names \ {"DATABASE_URL"} : osenv[n] = NotPresent

\* C7 as claimed: whenever DATABASE_URL is absent, DbConfig::init_for, once
\* run, and Config::init(p), once returned, have failed with the error of
\* the missing required value, whatever the other variables hold; whenever
\* DATABASE_URL is present and nothing else is set, Config::init(p) returns
\* the Config of the defaults.
C7_AsClaimed ==
    /\ (osenv["DATABASE_URL"] = NotPresent /\ db # Pending) => db = MissingDatabaseUrl
    /\ (osenv["DATABASE_URL"] = NotPresent /\ Returned /\ ~environment.some) =>
            result = MissingDatabaseUrl
    /\ (osenv["DATABASE_URL"] # NotPresent /\ OnlyDatabaseUrlSet
            /\ Returned /\ ~environment.some) =>
            /\ result.ok
            /\ result.val = Defaults(osenv["DATABASE_URL"].s, default_port)

\* C7 amended: whenever DATABASE_URL is absent, DbConfig::init_for, once run,
\* has failed with the error of the missing required value, whatever the
\* other variables hold, and Config::init(p), once returned, has failed with
\* that error unless APP_ENV holds a text that names no environment, when it
\* has failed with the validation error of APP_ENV; whenever DATABASE_URL
\* holds a text (valid Unicode) and nothing else is set, Config::init(p)
\* returns the Config of the defaults: env Local, addr "127.0.0.1", port p,
\* uri "", 1 and 10 connections, 750 ms, 300 s, no test before acquire.
C7_DatabaseUrlRequired ==
    /\ (osenv["DATABASE_URL"] = NotPresent /\ db # Pending) => db = MissingDatabaseUrl
    /\ (osenv["DATABASE_URL"] = NotPresent /\ Returned /\ ~environment.some) =>
            IF osenv["APP_ENV"].tag = "Text"
                  /\ ~Environment_from_str(osenv["APP_ENV"].s).ok
            THEN result = Err("ValidationError", "APP_ENV", osenv["APP_ENV"].s)
            ELSE result = MissingDatabaseUrl
    /\ (osenv["DATABASE_URL"].tag = "Text" /\ OnlyDatabaseUrlSet
            /\ Returned /\ ~environment.some) =>
            /\ result.ok
            /\ result.val = Defaults(osenv["DATABASE_URL"].s, default_port)
            /\ Duration_as_millis(result.val.db.acquire_timeout) = 750
            /\ Duration_as_secs(result.val.db.idle_timeout) = 300

\* C7 witness: Config::init(8080) returned the defaults with only
\* DATABASE_URL set.
C7_Witness ==
    /\ Returned /\ ~environment.some /\ default_port = 8080
    /\ OnlyDatabaseUrlSet /\ osenv["DATABASE_URL"] = Text(<<"d", "b">>)
    /\ result.ok /\ result.val.server.port = 8080 /\ result.val.db.max_connections = 10

\* C7 second witness: Config::init failed for the missing DATABASE_URL while
\* other variables were set.
C7_WitnessMissing ==
    /\ Returned /\ ~environment.some
    /\ osenv["DATABASE_URL"] = NotPresent /\ osenv["PORT"] = Text(<<"x">>)
    /\ result = MissingDatabaseUrl

\* The names of the ten recognized variables.
Recognized == Names \ {"RUST_LOG"}

\* The lines of a rendering that assign the variable n.
LinesOf(r, n) == {i \in 1..Len(r) : r[i].name = n}

\* The environment that holds exactly the assignments of a rendering.
EnvOf(r) == [n \in Names |-> Text(r[CHOOSE i \in LinesOf(r, n) : TRUE].value)]

\* The rendered value of each recognized variable is the resolved value of
\* its field.
RendersResolved(r, c) ==
    /\ \A n \in Recognized : Cardinality(LinesOf(r, n)) = 1
    /\ LET v == [n \in Recognized |-> r[CHOOSE i \in LinesOf(r, n) : TRUE].value]
       IN  /\ Environment_from_str(v["APP_ENV"]) = [ok |-> TRUE, val |-> c.env]
           /\ v["APP_URI"] = c.server.uri
           /\ v["HOST"] = c.server.addr
           /\ ParseUnsigned(v["PORT"], U16_MAX) = [ok |-> TRUE, val |-> c.server.port]
           /\ v["DATABASE_URL"] = c.db.database_url
           /\ ParseUnsigned(v["MIN_CONNECTIONS"], U32_MAX)
                 = [ok |-> TRUE, val |-> c.db.min_connections]
           /\ ParseUnsigned(v["MAX_CONNECTIONS"], U32_MAX)
                 = [ok |-> TRUE, val |-> c.db.max_connections]
           /\ ParseUnsigned(v["ACQUIRE_TIMEOUT_MS"], U64_MAX).ok
           /\ Duration_from_millis(ParseUnsigned(v["ACQUIRE_TIMEOUT_MS"], U64_MAX).val)
                 = c.db.acquire_timeout
           /\ ParseUnsigned(v["IDLE_TIMEOUT_SEC"], U64_MAX).ok
           /\ Duration_from_secs(ParseUnsigned(v["IDLE_TIMEOUT_SEC"], U64_MAX).val)
                 = c.db.idle_timeout
           /\ ParseBool(v["TEST_BEFORE_ACQUIRE"])
                 = [ok |-> TRUE, val |-> c.db.test_before_acquire]

\* Resolving again from the assignments of the rendering gives the same
\* Config, whatever the default port.
RoundTrips(r, c) ==
    \A p \in {0, 80, 8080} : Config_init(EnvOf(r), p) = Ok(c)

\* C8 as claimed: the rendering of a Config returned holds one assignment
\* for each of the ten recognized variables, the values of string type
\* (APP_URI, HOST, DATABASE_URL) quoted, each value the resolved value of
\* its field; resolving again from those assignments gives an equal Config.
C8_AsClaimed ==
    pc = "rendered" =>
        /\ RendersResolved(rendered, result.val)
        /\ \A i \in 1..Len(rendered) :
              rendered[i].name \in {"APP_URI", "HOST", "DATABASE_URL"} => rendered[i].quoted
        /\ RoundTrips(rendered, result.val)

\* C8 amended: the rendering of a Config returned holds one assignment for
\* each of the ten recognized variables, the values of APP_URI and
\* DATABASE_URL quoted and every other value, the address of HOST included,
\* not quoted, each value the resolved value of its field, defaults
\* included; resolving again from those assignments gives a Config equal
\* field by field.
C8_RenderingRoundTrips ==
    pc = "rendered" =>
        /\ RendersResolved(rendered, result.val)
        /\ \A i \in 1..Len(rendered) :
              rendered[i].name \in Recognized =>
                 (rendered[i].quoted <=> rendered[i].name \in {"APP_URI", "DATABASE_URL"})
        /\ RoundTrips(rendered, result.val)

\* C8 witness: a Config resolved for the Test environment, with the
\* connection string marked and HOST and the timeouts defaulted, is rendered.
C8_Witness ==
    /\ pc = "rendered" /\ ~environment.some
    /\ result.val.env = "Test"
    /\ osenv["DATABASE_URL"] = Text(<<"d", "b">>)
    /\ osenv["HOST"] = NotPresent /\ osenv["ACQUIRE_TIMEOUT_MS"] = NotPresent
    /\ \E i \in 1..Len(rendered) :
          rendered[i] = Line("DATABASE_URL", TRUE, <<"d", "b">> \o TestMarker)
    /\ \E i \in 1..Len(rendered) : rendered[i] = Line("HOST", FALSE, DefaultHost)

---------------------------------------------------------------------------
(* Claims about DbConfig::init_for, checked under SpecDb.                  *)

DbReturned == pc \in {"db_returned", "db_rendered"}

\* u ends with the five characters _test.
EndsInMarker(u) ==
    /\ Len(u) >= 5
    /\ u[Len(u) - 4] = "_" /\ u[Len(u) - 3] = "t" /\ u[Len(u) - 2] = "e"
    /\ u[Len(u) - 1] = "s" /\ u[Len(u)] = "t"

HasQuery(u) == "?" \in {u[i] : i \in 1..Len(u)}

\* C1: DbConfig::init_for(env) with DATABASE_URL set to the text u stores
\* u followed by _test exactly when env is Test and u neither ends with
\* _test nor contains "?", and stores u unchanged in every other case; so a
\* database_url stored for Test ends with _test or contains "?".
C1_TestMarkerRule ==
    (DbReturned /\ db.ok /\ ~first.some) =>
        LET u == osenv["DATABASE_URL"].s
            stored == db.val.database_url
        IN  /\ IF env = "Test" /\ ~EndsInMarker(u) /\ ~HasQuery(u)
               THEN stored = u \o <<"_", "t", "e", "s", "t">>
               ELSE stored = u
            /\ env = "Test" => (EndsInMarker(stored) \/ HasQuery(stored))

\* C1 witness: for Test, a connection string that ends with _tes (nearly the
\* marker) and has no "?" was stored with the marker added.
C1_Witness ==
    /\ DbReturned /\ db.ok /\ ~first.some /\ env = "Test"
    /\ osenv["DATABASE_URL"] = Text(<<"d", "_", "t", "e", "s">>)
    /\ db.val.database_url = <<"d", "_", "t", "e", "s", "_", "t", "e", "s", "t">>

\* C2: the rewrite is idempotent.  When DbConfig::init_for(env) is run
\* again with DATABASE_URL set to the database_url it stored, it stores
\* that same database_url; the marker is not added to a text that ends
\* with it already, nor to a text that contains "?".
C2_RewriteIdempotent ==
    /\ (DbReturned /\ first.some) => (db.ok /\ db.val.database_url = first.s)
    /\ (DbReturned /\ db.ok) =>
          LET u == osenv["DATABASE_URL"].s
          IN  (EndsInMarker(u) \/ HasQuery(u)) => db.val.database_url = u

\* C2 witness: for Test, the second run kept db_test, which the first run
\* had made of db.
C2_Witness ==
    /\ DbReturned /\ first.some /\ env = "Test"
    /\ first.s = <<"d", "_", "t", "e", "s", "t">>
    /\ osenv["DATABASE_URL"] = Text(first.s)
    /\ db.ok /\ db.val.database_url = first.s
    /\ \E i \in 1..Len(rendered) :
          rendered[i] = Line("DATABASE_URL", TRUE, first.s)

---------------------------------------------------------------------------
(* Claims about HttpServerConfig::init_for, checked under SpecHttp.        *)

---------------------------------------------------------------------------
(* Claims about the readers, checked under SpecReaders.                    *)

\* The environment a text names when its letters' case is not counted.
NamedIgnoringCase(s) == {v \in Environments : Environment_to_string(v) = to_lowercase(s)}

\* The environment a text names exactly.
NamedExactly(s) ==
    {v \in Environments :
        \/ v = "Local" /\ s = <<"l", "o", "c", "a", "l">>
        \/ v = "Test" /\ s = <<"t", "e", "s", "t">>
        \/ v = "Stage" /\ s = <<"s", "t", "a", "g", "e">>
        \/ v = "Production" /\ s = <<"p", "r", "o", "d", "u", "c", "t", "i", "o", "n">>}

\* C4 as claimed, for APP_ENV absent or holding a text: Environment::init
\* answers Local when APP_ENV is absent; when APP_ENV is present it answers
\* the variant the value names, the letters' case not counted ("production",
\* "Production" and "PRODUCTION" all name Production); when the value names
\* no variant it fails with a validation error that names the value, and
\* does not answer Local.
C4_AsClaimed ==
    (pc = "Environment_init_returned" /\ osenv["APP_ENV"] # NotUnicode) =>
        LET a == osenv["APP_ENV"]
        IN  IF a = NotPresent THEN result = Ok("Local")
            ELSE IF NamedIgnoringCase(a.s) # {}
                 THEN result.ok /\ result.val \in NamedIgnoringCase(a.s)
                 ELSE ~result.ok /\ result.kind = "ValidationError"
                      /\ result.name = "APP_ENV" /\ result.text = a.s

\* C4 amended: Environment::init answers Local when APP_ENV is absent, and
\* also when it is set to a value that is not valid Unicode; when APP_ENV
\* holds a text it answers the variant whose lower-case name (local, test,
\* stage, production) the text is exactly, the letters' case counted (so
\* "production" names Production and "Production" and "PRODUCTION" name
\* nothing); when the text names no variant it fails with a validation error
\* that names the text, and does not answer Local.
C4_EnvironmentInit ==
    pc = "Environment_init_returned" =>
        LET a == osenv["APP_ENV"]
        IN  IF a.tag # "Text" THEN result = Ok("Local")
            ELSE IF NamedExactly(a.s) # {}
                 THEN result.ok /\ result.val \in NamedExactly(a.s)
                 ELSE result = Err("ValidationError", "APP_ENV", a.s)

\* C4 witness: "PRODUCTION" was refused with the validation error.
C4_Witness ==
    /\ pc = "Environment_init_returned"
    /\ osenv["APP_ENV"] = Text(<<"P", "R", "O", "D", "U", "C", "T", "I", "O", "N">>)
    /\ result = Err("ValidationError", "APP_ENV", osenv["APP_ENV"].s)

\* C4 second witness: "production" was accepted.
C4_WitnessAccepted ==
    /\ pc = "Environment_init_returned"
    /\ osenv["APP_ENV"] = Text(<<"p", "r", "o", "d", "u", "c", "t", "i", "o", "n">>)
    /\ result = Ok("Production")

EnvParsableReturned == pc \in {"env_parsable_u16_returned", "env_parsable_u64_returned"}

\* The number a text denotes for an unsigned type of largest value max: an
\* optional "+" and then digits only, at least one, of a value within max.
Denotes(s, max) ==
    LET d == IF s # <<>> /\ s[1] = "+" THEN Tail(s) ELSE s
    IN  /\ d # <<>>
        /\ \A i \in 1..Len(d) : d[i] \in {Digits[k] : k \in 1..10}
        /\ DigitsLeq(StripZeros(d), max)

MaxAt(at) == IF at = "env_parsable_u16_returned" THEN U16_MAX ELSE U64_MAX

\* C5: env_parsable(name, default) answers the default when the variable is
\* absent, the parsed value when it is present and parses, and fails with a
\* parse error that names the variable and the value when it is present and
\* does not parse; it never answers the default for a present value that
\* does not parse.
C5_EnvParsable ==
    EnvParsableReturned =>
        LET a == osenv[ReadBy(pc)]
        IN  IF a = NotPresent THEN result = Ok(def)
            ELSE IF a.tag = "Text" /\ Denotes(a.s, MaxAt(pc))
                 THEN result.ok /\ ToDecimal(result.val) = StripZeros(
                          IF a.s[1] = "+" THEN Tail(a.s) ELSE a.s)
                 ELSE ~result.ok /\ result.kind = "ParseError"
                      /\ result.name = ReadBy(pc) /\ result.text = a.s

\* C5 on texts: what the claim says holds of every value that is a text.
C5_EnvParsableOnTexts ==
    (EnvParsableReturned /\ osenv[ReadBy(pc)] # NotUnicode) => C5_EnvParsable

\* C5 on texts, witness: "65536" was refused for u16.
C5_OnTextsWitness ==
    /\ pc = "env_parsable_u16_returned"
    /\ osenv["PORT"] = Text(<<"6", "5", "5", "3", "6">>)
    /\ result = Err("ParseError", "PORT", osenv["PORT"].s)

\* C6: env_bool(name, default) answers the default when the variable is
\* absent; when present, false for "0" and every spelling of "false", true
\* for "1" and every spelling of "true", and a parse error for every other
\* present value; it never answers the default for a present value that is
\* none of those.
C6_EnvBool ==
    pc = "env_bool_returned" =>
        LET a == osenv[ReadBy(pc)]
        IN  IF a = NotPresent THEN result = Ok(def)
            ELSE IF a.tag = "Text" /\ (a.s = <<"0">> \/ a.s \in CaseSpellings(False))
                 THEN result = Ok(FALSE)
            ELSE IF a.tag = "Text" /\ (a.s = <<"1">> \/ a.s \in CaseSpellings(True))
                 THEN result = Ok(TRUE)
            ELSE ~result.ok /\ result.kind = "ParseError" /\ result.name = ReadBy(pc)

\* C6 on texts: what the claim says holds of every value that is a text.
C6_EnvBoolOnTexts ==
    (pc = "env_bool_returned" /\ osenv[ReadBy(pc)] # NotUnicode) => C6_EnvBool

\* C6 on texts, witness: "TrUe" was read as true with the default false.
C6_OnTextsWitness ==
    /\ pc = "env_bool_returned" /\ def = FALSE
    /\ osenv["TEST_BEFORE_ACQUIRE"] = Text(<<"T", "r", "U", "e">>)
    /\ result = Ok(TRUE)

=============================================================================
